---------------------------- MODULE Spec2Model ----------------------------
(***************************************************************************)
(* The SAML login handoff of ssoready-example-app-golang-saml              *)
(* (src/main.go): four net/http handlers, a broker client                  *)
(* (ssoreadyClient) and, per browser, the `email` cookie that carries the  *)
(* session.                                                                *)
(*                                                                         *)
(* Strings are sequences of characters.  A character is a one-character    *)
(* string, except for tokens that stand for a longer piece of text:        *)
(*   "U+00E9"               the non-ASCII letter e-acute (UTF-8 C3 A9),    *)
(*   "%C3", "%A9"           the percent-escapes of its two bytes,          *)
(*   "https://idp.example"  a scheme and host,                             *)
(*   "DQUOTE"               the double quote,                              *)
(*   "logout", "saml-redirect", "ssoready-callback", "k1", ...             *)
(*                          a run of letters: a path element, a code,      *)
(*   "logged-out user"      the template's text for no session.            *)
(*                                                                         *)
(* A handler that calls the broker blocks in the call, so it is two steps: *)
(* up to the call, and from the broker's answer on.  A browser applies the *)
(* Set-Cookie of a response when it receives the response.                 *)
(***************************************************************************)
EXTENDS Integers, Sequences, FiniteSets

VARIABLES
    cookie,     \* cookie[b]: browser b's cookie jar entry for `email`
    pc,         \* pc[b]: where b's request is: idle, or blocked in a broker call
    req,        \* req[b]: b's request in flight, or its last request
    resp,       \* resp[b]: what b received for its last completed request
    redeemed,   \* broker state: the redemptions a single-use broker granted
    singleUse,  \* broker kind: TRUE when it redeems each code at most once
    hist        \* hist[b]: where b stands in the handoff, for browsers observed

vars == <<cookie, pc, req, resp, redeemed, singleUse, hist>>

Browsers == {"b1", "b2"}

-----------------------------------------------------------------------------
(* Strings *)

EmptyStr == <<>>
DQ == "DQUOTE"          \* the double-quote character
NonASCII == {"U+00E9"}

Str(s) == [present |-> TRUE, value |-> s]
None == [present |-> FALSE, value |-> EmptyStr]

Contains(s, c) == \E i \in 1..Len(s) : s[i] = c
IndexOf(s, c) == CHOOSE i \in 1..Len(s) : s[i] = c /\ \A j \in 1..(i-1) : s[j] # c

\* url.Values.Get: the first value of the key, "" when the key is absent.
QueryGet(param) == IF param.present THEN param.value ELSE EmptyStr

\* strings.Cut(s, "@"), second result: the text after the first "@", "" when
\* s holds no "@".
CutAfter(s) ==
    IF Contains(s, "@") THEN SubSeq(s, IndexOf(s, "@") + 1, Len(s)) ELSE EmptyStr

-----------------------------------------------------------------------------
(* net/http as the handlers use it: http.SetCookie, Request.Cookie and     *)
(* http.Redirect are calls the handlers make, so what they do to a value   *)
(* is part of the handler.                                                 *)

\* validCookieValueByte: 0x20 <= b < 0x7f, and none of '"', ';', '\'.
validCookieValueByte(c) == c \notin NonASCII \cup {DQ, ";", "\\"}

\* sanitizeCookieValue, as Cookie.String applies it to Cookie.Value: the
\* invalid bytes are dropped, and a value holding a space or a comma is
\* wrapped in double quotes.
sanitizeCookieValue(v) ==
    LET kept == SelectSeq(v, validCookieValueByte)
    IN  IF kept = EmptyStr THEN EmptyStr
        ELSE IF Contains(kept, " ") \/ Contains(kept, ",")
             THEN <<DQ>> \o kept \o <<DQ>>
             ELSE kept

\* parseCookieValue(raw, allowDoubleQuote = true), as readCookies applies it
\* to the Cookie request header: surrounding double quotes are stripped, and
\* a value with an invalid byte makes the cookie be skipped.
parseCookieValue(raw) ==
    LET inner == IF Len(raw) > 1 /\ raw[1] = DQ /\ raw[Len(raw)] = DQ
                 THEN SubSeq(raw, 2, Len(raw) - 1)
                 ELSE raw
    IN  IF \A i \in 1..Len(inner) : validCookieValueByte(inner[i])
        THEN Str(inner)
        ELSE None

\* r.Cookie("email"): nil (None) when the browser sent no such cookie or the
\* one it sent does not parse.
RequestCookie(jar) == IF jar.present THEN parseCookieValue(jar.value) ELSE None

\* What a browser's jar holds after a response: a Set-Cookie with Max-Age=0
\* (Cookie.MaxAge < 0) deletes the entry, any other Set-Cookie stores the
\* value as it was written on the wire, no Set-Cookie leaves the jar alone.
NoSetCookie == [set |-> FALSE, value |-> EmptyStr, maxAge |-> 0]
ApplySetCookie(jar, sc) ==
    IF ~sc.set THEN jar
    ELSE IF sc.maxAge < 0 THEN None
    ELSE Str(sc.value)

Origins == {"https://idp.example"}

\* hexEscapeNonASCII: every non-ASCII byte becomes its %XX escape.
RECURSIVE hexEscapeNonASCII(_)
hexEscapeNonASCII(s) ==
    IF s = EmptyStr THEN EmptyStr
    ELSE (IF Head(s) \in NonASCII THEN <<"%C3", "%A9">> ELSE <<Head(s)>>)
         \o hexEscapeNonASCII(Tail(s))

\* path.Clean on a path without "." or ".." elements or doubled slashes
\* (none of the URLs below has any): the trailing slash goes, the root stays.
pathClean(p) ==
    IF p = EmptyStr THEN <<".">>
    ELSE IF Len(p) > 1 /\ p[Len(p)] = "/" THEN SubSeq(p, 1, Len(p) - 1)
    ELSE p

\* path.Split(oldpath), first result: the text up to and including the last
\* slash.
pathDir(p) ==
    IF Contains(p, "/")
    THEN SubSeq(p, 1, CHOOSE i \in 1..Len(p) :
                         p[i] = "/" /\ \A j \in (i+1)..Len(p) : p[j] # "/")
    ELSE EmptyStr

\* http.Redirect's Location header for target `url` on a request for
\* `oldpath`: a URL without scheme and host is made absolute against the
\* request path and cleaned (its query kept, its trailing slash kept), and
\* non-ASCII bytes are escaped.
RedirectLocation(url, oldpath) ==
    LET hasOrigin == url # EmptyStr /\ url[1] \in Origins
        abs == IF url = EmptyStr \/ url[1] # "/" THEN pathDir(oldpath) \o url ELSE url
        q == IF Contains(abs, "?") THEN IndexOf(abs, "?") ELSE Len(abs) + 1
        path == SubSeq(abs, 1, q - 1)
        query == SubSeq(abs, q, Len(abs))
        trailing == path # EmptyStr /\ path[Len(path)] = "/"
        cleaned == pathClean(path)
        slashed == IF trailing /\ cleaned[Len(cleaned)] # "/"
                   THEN cleaned \o <<"/">> ELSE cleaned
    IN  hexEscapeNonASCII(IF hasOrigin THEN url ELSE slashed \o query)

-----------------------------------------------------------------------------
(* Inputs: what browsers send and what the broker answers. *)

\* The `email` query parameter of GET /saml-redirect.
EmailParams ==
    { None, Str(EmptyStr), Str(<<"a">>), Str(<<"a", "@">>),
      Str(<<"a", "@", "b">>), Str(<<"a", "@", "b", "@", "c">>) }

\* The one-time codes in circulation, and the `saml_access_code` query
\* parameter of GET /ssoready-callback: absent, empty, or a code.
NumCodes == 1
CodeNames == <<"k1", "k2", "k3">>
Codes == { <<CodeNames[i]>> : i \in 1..NumCodes }
CodeParams == { None, Str(EmptyStr) } \cup { Str(k) : k \in Codes }

\* Identities the broker may return: plain, with a non-ASCII letter, with a
\* space.
Identities ==
    { <<"j", "@", "b">>, <<"j", "U+00E9", "@", "b">>, <<"j", " ", "d">> }

\* Redirect URLs the broker may return: absolute, absolute with a non-ASCII
\* letter, relative.
URLs ==
    { <<"https://idp.example", "/", "s">>,
      <<"https://idp.example", "/", "U+00E9">>,
      <<"s">> }

\* Cookie values a browser may put in its own jar.
Forged == { <<"e", "@", "b">> }

\* What a broker call gives back: (nil, err), or a response whose pointer
\* field (RedirectURL, Email) is nil or points to a string.
BrokerErr == [kind |-> "err", val |-> EmptyStr]
BrokerNil == [kind |-> "nil", val |-> EmptyStr]
BrokerOk(v) == [kind |-> "ok", val |-> v]

\* SAML.GetSAMLRedirectURL: any answer, for any organization.
ResolveAnswers(org) == {BrokerErr, BrokerNil} \cup {BrokerOk(u) : u \in URLs}

\* SAML.RedeemSAMLAccessCode: any answer, except that a single-use broker
\* answers a code it has redeemed with an error.  A string that is not a code
\* in circulation (the empty string) is no code to use up.
RedeemedCodes == { r.code : r \in redeemed }
RedeemAnswers(code) ==
    IF singleUse /\ code \in RedeemedCodes
    THEN {BrokerErr}
    ELSE {BrokerErr, BrokerNil} \cup {BrokerOk(i) : i \in Identities}

\* The broker's record of a redemption it granted.
Redemption(code, by) == [code |-> code, by |-> by]

-----------------------------------------------------------------------------
(* Requests and responses *)

NoRes == [kind |-> "none", val |-> EmptyStr]

Request(op, email, code, arg, resolveCalls, redeemCalls) ==
    [op |-> op, email |-> email, code |-> code, arg |-> arg,
     resolveCalls |-> resolveCalls, redeemCalls |-> redeemCalls, res |-> NoRes]

NoReq == Request("none", None, None, EmptyStr, 0, 0)

Response(kind, status, location, setCookie, greeting) ==
    [kind |-> kind, status |-> status, location |-> location,
     setCookie |-> setCookie, greeting |-> greeting]

NoResp == Response("none", 0, EmptyStr, NoSetCookie, EmptyStr)

\* A handler that panics has written nothing: net/http recovers the panic in
\* the connection's goroutine, logs it and closes the connection, so the
\* browser gets no response; the server goes on serving.
Aborted == Response("aborted", 0, EmptyStr, NoSetCookie, EmptyStr)

StatusOK == 200
StatusFound == 302
LogoutMaxAge == -1

\* http.SetCookie(w, &http.Cookie{Name: "email", Value: v, MaxAge: m})
SetCookie(v, m) == [set |-> TRUE, value |-> sanitizeCookieValue(v), maxAge |-> m]

\* http.Redirect(w, r, url, http.StatusFound), after an optional SetCookie
RedirectResponse(url, oldpath, setCookie) ==
    Response("redirect", StatusFound, RedirectLocation(url, oldpath), setCookie,
             EmptyStr)

-----------------------------------------------------------------------------
(* The handoff as the browser went through it.  The server keeps none of   *)
(* this: it is an observer's record, kept for the browsers observed and    *)
(* left alone for the others.                                              *)
(*   awaiting    the browser was redirected to the identity provider and   *)
(*               has since neither been given a session nor logged out,    *)
(*   outOfOrder  the session it has was given to it while not awaiting,    *)
(*   granted     the identity of its last successful redemption since its  *)
(*               last logout.                                              *)

NoHist(on) ==
    [on |-> on, awaiting |-> FALSE, outOfOrder |-> FALSE, granted |-> None]

HistRedirected(h, r) ==
    IF h.on /\ r.kind = "redirect" THEN [h EXCEPT !.awaiting = TRUE] ELSE h

HistRedeemed(h, res, r) ==
    IF ~h.on THEN h
    ELSE [h EXCEPT !.granted = IF res.kind = "ok" THEN Str(res.val) ELSE @,
                   !.awaiting = IF r.setCookie.set THEN FALSE ELSE @,
                   !.outOfOrder = IF r.setCookie.set THEN ~h.awaiting ELSE @]

HistLoggedOut(h) == IF h.on THEN NoHist(TRUE) ELSE h

-----------------------------------------------------------------------------
(* GET / *)

\* var email string; cookie, _ := r.Cookie("email"); if cookie != nil {...}:
\* the session a request carries, "" for none.
SessionEmail(jar) ==
    IF RequestCookie(jar).present THEN RequestCookie(jar).value ELSE EmptyStr

\* {{ or .Email "logged-out user" }}.  html/template escapes none of the
\* characters a parsed cookie value of this model can hold.
IndexGreeting(jar) ==
    IF SessionEmail(jar) = EmptyStr THEN <<"logged-out user">> ELSE SessionEmail(jar)

\* indexTemplate.Execute fails only when the response cannot be written.
IndexResponse(jar, written) ==
    IF written
    THEN Response("page", StatusOK, EmptyStr, NoSetCookie, IndexGreeting(jar))
    ELSE Aborted

Index(b) ==
    /\ pc[b] = "idle"
    /\ \E written \in BOOLEAN :
         resp' = [resp EXCEPT ![b] = IndexResponse(cookie[b], written)]
    /\ req' = [req EXCEPT ![b] = Request("index", None, None, EmptyStr, 0, 0)]
    /\ UNCHANGED <<cookie, pc, redeemed, singleUse, hist>>

-----------------------------------------------------------------------------
(* GET /logout *)

\* LogoutResponse with a fault: the cookie is emptied but not expired.
LogoutResponse_NoMaxAge ==
    RedirectResponse(<<"/">>, <<"/", "logout">>, SetCookie(EmptyStr, 0))

LogoutResponse ==
    RedirectResponse(<<"/">>, <<"/", "logout">>, SetCookie(EmptyStr, LogoutMaxAge))

Logout(b) ==
    /\ pc[b] = "idle"
    /\ resp' = [resp EXCEPT ![b] = LogoutResponse]
    /\ req' = [req EXCEPT ![b] = Request("logout", None, None, EmptyStr, 0, 0)]
    /\ cookie' = [cookie EXCEPT ![b] = ApplySetCookie(@, LogoutResponse.setCookie)]
    /\ hist' = [hist EXCEPT ![b] = HistLoggedOut(@)]
    /\ UNCHANGED <<pc, redeemed, singleUse>>

-----------------------------------------------------------------------------
(* GET /saml-redirect *)

\* domain with a fault: the input is cut at its last "@".
domain_LastAt(email) ==
    LET s == QueryGet(email)
    IN  IF Contains(s, "@")
        THEN SubSeq(s, 1 + CHOOSE i \in 1..Len(s) :
                              s[i] = "@" /\ \A j \in (i+1)..Len(s) : s[j] # "@",
                    Len(s))
        ELSE EmptyStr

\* _, domain, _ := strings.Cut(r.URL.Query().Get("email"), "@")
domain(email) == CutAfter(QueryGet(email))

\* The handler up to its broker call, which blocks.
SamlRedirectCall(b) ==
    /\ pc[b] = "idle"
    /\ \E email \in EmailParams :
         req' = [req EXCEPT ![b] =
                    Request("saml-redirect", email, None, domain(email), 1, 0)]
    /\ pc' = [pc EXCEPT ![b] = "resolving"]
    /\ resp' = [resp EXCEPT ![b] = NoResp]
    /\ UNCHANGED <<cookie, redeemed, singleUse, hist>>

\* SamlRedirectResponse with a fault: the target is not the broker's URL; an
\* error is answered with a redirect; the handoff starts by dropping the
\* session.
SamlRedirectResponse_Home(getRedirectURLRes) ==
    IF getRedirectURLRes.kind = "err" \/ getRedirectURLRes.kind = "nil"
    THEN Aborted
    ELSE RedirectResponse(<<"/">>, <<"/", "saml-redirect">>, NoSetCookie)

SamlRedirectResponse_RedirectOnError(getRedirectURLRes) ==
    IF getRedirectURLRes.kind = "nil"
    THEN Aborted
    ELSE RedirectResponse(getRedirectURLRes.val, <<"/", "saml-redirect">>,
                          NoSetCookie)

SamlRedirectResponse_ClearsCookie(getRedirectURLRes) ==
    IF getRedirectURLRes.kind = "err" \/ getRedirectURLRes.kind = "nil"
    THEN Aborted
    ELSE RedirectResponse(getRedirectURLRes.val, <<"/", "saml-redirect">>,
                          SetCookie(EmptyStr, LogoutMaxAge))

\* The handler from the broker's answer on.
SamlRedirectResponse(getRedirectURLRes) ==
    IF getRedirectURLRes.kind = "err" \/ getRedirectURLRes.kind = "nil"
    THEN Aborted
    ELSE RedirectResponse(getRedirectURLRes.val, <<"/", "saml-redirect">>,
                          NoSetCookie)

\* SamlRedirectReturn with a fault: a broker error is answered by calling
\* the broker again.
SamlRedirectReturn_Retry(b) ==
    /\ pc[b] = "resolving"
    /\ \E res \in ResolveAnswers(req[b].arg) :
         IF res.kind = "err"
         THEN /\ req' = [req EXCEPT ![b].resolveCalls = @ + 1]
              /\ UNCHANGED <<resp, cookie, pc, hist>>
         ELSE /\ req' = [req EXCEPT ![b].res = res]
              /\ resp' = [resp EXCEPT ![b] = SamlRedirectResponse(res)]
              /\ cookie' = [cookie EXCEPT ![b] =
                               ApplySetCookie(@, SamlRedirectResponse(res).setCookie)]
              /\ hist' = [hist EXCEPT ![b] =
                             HistRedirected(@, SamlRedirectResponse(res))]
              /\ pc' = [pc EXCEPT ![b] = "idle"]
    /\ UNCHANGED <<redeemed, singleUse>>

SamlRedirectReturn(b) ==
    /\ pc[b] = "resolving"
    /\ \E res \in ResolveAnswers(req[b].arg) :
         /\ req' = [req EXCEPT ![b].res = res]
         /\ resp' = [resp EXCEPT ![b] = SamlRedirectResponse(res)]
         /\ cookie' = [cookie EXCEPT ![b] =
                          ApplySetCookie(@, SamlRedirectResponse(res).setCookie)]
         /\ hist' = [hist EXCEPT ![b] =
                        HistRedirected(@, SamlRedirectResponse(res))]
    /\ pc' = [pc EXCEPT ![b] = "idle"]
    /\ UNCHANGED <<redeemed, singleUse>>

-----------------------------------------------------------------------------
(* GET /ssoready-callback *)

samlAccessCode(code) == QueryGet(code)

CallbackCall(b) ==
    /\ pc[b] = "idle"
    /\ \E code \in CodeParams :
         req' = [req EXCEPT ![b] =
                    Request("callback", None, code, samlAccessCode(code), 0, 1)]
    /\ pc' = [pc EXCEPT ![b] = "redeeming"]
    /\ resp' = [resp EXCEPT ![b] = NoResp]
    /\ UNCHANGED <<cookie, redeemed, singleUse, hist>>

\* CallbackResponse with a fault: the error is not checked; an error logs
\* the browser out.
CallbackResponse_ErrIgnored(redeemRes) ==
    IF redeemRes.kind = "nil"
    THEN Aborted
    ELSE RedirectResponse(<<"/">>, <<"/", "ssoready-callback">>,
                          SetCookie(redeemRes.val, 0))

CallbackResponse_LogoutOnError(redeemRes) ==
    IF redeemRes.kind = "nil"
    THEN Aborted
    ELSE IF redeemRes.kind = "err"
    THEN RedirectResponse(<<"/">>, <<"/", "ssoready-callback">>,
                          SetCookie(EmptyStr, LogoutMaxAge))
    ELSE RedirectResponse(<<"/">>, <<"/", "ssoready-callback">>,
                          SetCookie(redeemRes.val, 0))

\* The handler from the broker's answer on.
CallbackResponse(redeemRes) ==
    IF redeemRes.kind = "err" \/ redeemRes.kind = "nil"
    THEN Aborted
    ELSE RedirectResponse(<<"/">>, <<"/", "ssoready-callback">>,
                          SetCookie(redeemRes.val, 0))

\* A server that held the browser to the order of the handoff: it would give
\* a session only to a browser it had sent to the identity provider.
CallbackReturn_OrderEnforced(b) ==
    /\ pc[b] = "redeeming"
    /\ \E res \in RedeemAnswers(req[b].arg) :
         LET r == IF hist[b].awaiting \/ res.kind = "err"
                  THEN CallbackResponse(res)
                  ELSE RedirectResponse(<<"/">>, <<"/", "ssoready-callback">>,
                                        NoSetCookie)
         IN  /\ req' = [req EXCEPT ![b].res = res]
             /\ resp' = [resp EXCEPT ![b] = r]
             /\ cookie' = [cookie EXCEPT ![b] = ApplySetCookie(@, r.setCookie)]
             /\ hist' = [hist EXCEPT ![b] = HistRedeemed(@, res, r)]
             /\ redeemed' = IF singleUse /\ res.kind # "err" /\ req[b].arg \in Codes
                            THEN redeemed \cup {Redemption(req[b].arg, b)}
                            ELSE redeemed
    /\ pc' = [pc EXCEPT ![b] = "idle"]
    /\ UNCHANGED singleUse

CallbackReturn(b) ==
    /\ pc[b] = "redeeming"
    /\ \E res \in RedeemAnswers(req[b].arg) :
         /\ req' = [req EXCEPT ![b].res = res]
         /\ resp' = [resp EXCEPT ![b] = CallbackResponse(res)]
         /\ cookie' = [cookie EXCEPT ![b] =
                          ApplySetCookie(@, CallbackResponse(res).setCookie)]
         /\ hist' = [hist EXCEPT ![b] = HistRedeemed(@, res, CallbackResponse(res))]
         /\ redeemed' = IF singleUse /\ res.kind # "err" /\ req[b].arg \in Codes
                        THEN redeemed \cup {Redemption(req[b].arg, b)}
                        ELSE redeemed
    /\ pc' = [pc EXCEPT ![b] = "idle"]
    /\ UNCHANGED singleUse

-----------------------------------------------------------------------------
(* The browser: its jar is its own, it may write any value into it. *)

Tamper(b) ==
    /\ pc[b] = "idle"
    /\ \E v \in Forged : cookie' = [cookie EXCEPT ![b] = Str(v)]
    /\ UNCHANGED <<pc, req, resp, redeemed, singleUse, hist>>

-----------------------------------------------------------------------------

Init ==
    /\ cookie = [b \in Browsers |-> None]
    /\ pc = [b \in Browsers |-> "idle"]
    /\ req = [b \in Browsers |-> NoReq]
    /\ resp = [b \in Browsers |-> NoResp]
    /\ redeemed = {}
    /\ singleUse \in BOOLEAN
    /\ hist = [b \in Browsers |-> NoHist(FALSE)]

Next ==
    \E b \in Browsers :
        \/ Index(b)
        \/ Logout(b)
        \/ SamlRedirectCall(b)
        \/ SamlRedirectReturn(b)
        \/ CallbackCall(b)
        \/ CallbackReturn(b)
        \/ Tamper(b)

Spec == Init /\ [][Next]_vars

\* Browsers that only send back the cookies the server set, each of them
\* observed, in front of a broker that redeems a code any number of times.
InitHonest ==
    /\ cookie = [b \in Browsers |-> None]
    /\ pc = [b \in Browsers |-> "idle"]
    /\ req = [b \in Browsers |-> NoReq]
    /\ resp = [b \in Browsers |-> NoResp]
    /\ redeemed = {}
    /\ singleUse = FALSE
    /\ hist = [b \in Browsers |-> NoHist(TRUE)]

NextHonest ==
    \E b \in Browsers :
        \/ Index(b)
        \/ Logout(b)
        \/ SamlRedirectCall(b)
        \/ SamlRedirectReturn(b)
        \/ CallbackCall(b)
        \/ CallbackReturn(b)

SpecHonest == InitHonest /\ [][NextHonest]_vars

-----------------------------------------------------------------------------
(* Properties *)

\* b's last request was `op` and it has ended.
Done(b, op) == pc[b] = "idle" /\ req[b].op = op

\* The session a browser holds after a response that set the cookie.
SessionWritten(r) == SessionEmail(ApplySetCookie(None, r.setCookie))

RedirectsHome(r) ==
    r.kind = "redirect" /\ r.status = StatusFound /\ r.location = <<"/">>

CookieSafe(s) == \A i \in 1..Len(s) : validCookieValueByte(s[i])

\* C1 (as claimed): a callback whose code the broker redeems makes exactly
\* one redeem call, sets the session to exactly the identity the broker
\* returned, and redirects to "/".
C1_SessionIsReturnedIdentity ==
    \A b \in Browsers :
        (Done(b, "callback") /\ req[b].res.kind = "ok") =>
            /\ req[b].redeemCalls = 1
            /\ resp[b].setCookie.set
            /\ SessionWritten(resp[b]) = req[b].res.val
            /\ RedirectsHome(resp[b])

\* C1, the part the code keeps: the same, for identities made only of bytes
\* a cookie value may hold.
C1_SessionIsCookieSafeIdentity ==
    \A b \in Browsers :
        (Done(b, "callback") /\ req[b].res.kind = "ok"
            /\ CookieSafe(req[b].res.val)) =>
            /\ req[b].redeemCalls = 1
            /\ resp[b].setCookie.set
            /\ SessionWritten(resp[b]) = req[b].res.val
            /\ RedirectsHome(resp[b])

\* C2: when the redeem call returns an error, the callback request leaves
\* the browser's session as it was, sets no cookie and issues no redirect.
C2_NoSessionOnRedeemError ==
    [][\A b \in Browsers :
          (CallbackReturn(b) /\ req'[b].res.kind = "err") =>
              /\ cookie'[b] = cookie[b]
              /\ ~resp'[b].setCookie.set
              /\ resp'[b].kind # "redirect"
              /\ resp'[b].location = EmptyStr]_vars

C2_Witness ==
    \E b \in Browsers :
        /\ Done(b, "callback")
        /\ req[b].res.kind = "err"
        /\ resp[b] = Aborted
        /\ SessionEmail(cookie[b]) = <<"j", "@", "b">>

\* C3 (as claimed): a callback without `saml_access_code`, or with an empty
\* one, sets no session and issues no redirect, whatever the broker answers.
C3_MissingCodeRejected ==
    \A b \in Browsers :
        (Done(b, "callback") /\ samlAccessCode(req[b].code) = EmptyStr) =>
            /\ ~resp[b].setCookie.set
            /\ resp[b].kind # "redirect"

\* C4 (as claimed): an input that is empty or has no organization part
\* issues no redirect, whatever the broker answers.
C4_InvalidOrganizationRejected ==
    \A b \in Browsers :
        (Done(b, "saml-redirect") /\ domain(req[b].email) = EmptyStr) =>
            resp[b].kind # "redirect"

\* A URL with a scheme and host, made of ASCII characters.
AbsoluteASCII(u) ==
    /\ u # EmptyStr
    /\ u[1] \in Origins
    /\ \A i \in 1..Len(u) : u[i] \notin NonASCII

\* C5 (as claimed): for an input with an organization part for which the
\* broker returns a URL, the request issues one 302 redirect whose target
\* equals the URL the broker returned.
C5_TargetIsBrokerURL ==
    \A b \in Browsers :
        (Done(b, "saml-redirect") /\ domain(req[b].email) # EmptyStr
            /\ req[b].res.kind = "ok") =>
            /\ resp[b].kind = "redirect"
            /\ resp[b].status = StatusFound
            /\ resp[b].location = req[b].res.val

\* C5 (amended): the request makes one resolve call, for the organization cut
\* from the input, and issues one 302 redirect whose target is the broker's
\* URL as http.Redirect writes it: the URL itself when it is absolute and
\* ASCII; otherwise the URL made absolute against the request path, with its
\* non-ASCII bytes percent-escaped.
C5_TargetIsBrokerURLAsWritten ==
    \A b \in Browsers :
        (Done(b, "saml-redirect") /\ domain(req[b].email) # EmptyStr
            /\ req[b].res.kind = "ok") =>
            /\ req[b].resolveCalls = 1
            /\ req[b].arg = domain(req[b].email)
            /\ resp[b].kind = "redirect"
            /\ resp[b].status = StatusFound
            /\ ~resp[b].setCookie.set
            /\ AbsoluteASCII(req[b].res.val) =>
                   resp[b].location = req[b].res.val
            /\ req[b].res.val = <<"s">> => resp[b].location = <<"/", "s">>
            /\ req[b].res.val = <<"https://idp.example", "/", "U+00E9">> =>
                   resp[b].location = <<"https://idp.example", "/", "%C3", "%A9">>

C5_Witness ==
    \E b \in Browsers :
        /\ Done(b, "saml-redirect")
        /\ req[b].email = Str(<<"a", "@", "b">>)
        /\ req[b].arg = <<"b">>
        /\ req[b].res = BrokerOk(<<"https://idp.example", "/", "s">>)
        /\ resp[b].kind = "redirect"
        /\ resp[b].location = <<"https://idp.example", "/", "s">>

\* C6: when the resolve call returns an error, the request issues no redirect
\* (no status, no Location), sets no cookie and leaves the session as it was.
C6_NoRedirectOnResolveError ==
    [][\A b \in Browsers :
          (SamlRedirectReturn(b) /\ req'[b].res.kind = "err") =>
              /\ resp'[b].kind # "redirect"
              /\ resp'[b].location = EmptyStr
              /\ ~resp'[b].setCookie.set
              /\ cookie'[b] = cookie[b]]_vars

C6_Witness ==
    \E b \in Browsers :
        /\ Done(b, "saml-redirect")
        /\ req[b].res.kind = "err"
        /\ resp[b] = Aborted
        /\ SessionEmail(cookie[b]) = <<"j", " ", "d">>

\* C7: with a single-use broker, a callback that presents a code the broker
\* has already redeemed gets an error from the broker and fails: it issues no
\* redirect, sets no cookie, and the browser's jar, with the session an
\* earlier redemption wrote, is what it was.
C7_SecondRedemptionKeepsSession ==
    [][\A b \in Browsers :
          (CallbackReturn(b) /\ singleUse /\ req[b].arg \in RedeemedCodes) =>
              /\ req'[b].res.kind = "err"
              /\ resp'[b] = Aborted
              /\ cookie'[b] = cookie[b]]_vars

\* b redeemed code k1 and got a session; its last request presented k1 again
\* and failed; the session is still the one of the first attempt.
C7_Witness ==
    \E b \in Browsers :
        /\ singleUse
        /\ Redemption(<<"k1">>, b) \in redeemed
        /\ Done(b, "callback")
        /\ req[b].arg = <<"k1">>
        /\ req[b].res.kind = "err"
        /\ resp[b] = Aborted
        /\ SessionEmail(cookie[b]) = <<"j", "@", "b">>

\* C8: a logout, whatever the browser's session, is answered with a 302 to
\* "/", makes no broker call and leaves the browser without the cookie; a
\* logout right after a logout changes nothing.
C8_LogoutClearsSession ==
    [][\A b \in Browsers :
          (req'[b].op = "logout" /\ Logout(b)) =>
              /\ RedirectsHome(resp'[b])
              /\ req'[b].resolveCalls = 0
              /\ req'[b].redeemCalls = 0
              /\ cookie'[b] = None
              /\ SessionEmail(cookie'[b]) = EmptyStr
              /\ (req[b].op = "logout" /\ cookie[b] = None) => UNCHANGED vars]_vars

\* b, which redeemed k1 for a session earlier, has logged out.
C8_Witness ==
    \E b \in Browsers :
        /\ Redemption(<<"k1">>, b) \in redeemed
        /\ Done(b, "logout")
        /\ RedirectsHome(resp[b])
        /\ cookie[b] = None

\* C9 (as claimed): a request whose broker call returned an error ends with
\* an HTTP error response delivered to the browser.
C9_BrokerErrorGetsErrorResponse ==
    \A b \in Browsers :
        ((Done(b, "saml-redirect") \/ Done(b, "callback"))
            /\ req[b].res.kind = "err") =>
            /\ resp[b].kind = "error"
            /\ resp[b].status >= 400

\* C10: under any interleaving, a browser's jar changes only in a step of its
\* own callback whose redeem call succeeded, of its own logout, or of the
\* browser itself; while a request is blocked in its broker call the browser
\* has received nothing, and a redirect or a cookie is only ever the answer
\* to a broker call that succeeded; and of the callbacks that presented one
\* code to a single-use broker, at most one was answered with a session.
C10_Isolated(b) ==
    /\ pc[b] # "idle" => resp[b] = NoResp
    /\ (req[b].op \in {"saml-redirect", "callback"}
            /\ (resp[b].kind = "redirect" \/ resp[b].setCookie.set)) =>
           (pc[b] = "idle" /\ req[b].res.kind = "ok")

C10_OneSessionPerCode ==
    singleUse =>
        \A k \in Codes :
            Cardinality({ b \in Browsers :
                            /\ req[b].op = "callback"
                            /\ req[b].arg = k
                            /\ resp[b].setCookie.set }) <= 1

C10_RequestsAreIsolated ==
    /\ [][\A b \in Browsers :
            cookie'[b] # cookie[b] =>
                \/ CallbackReturn(b) /\ req'[b].res.kind = "ok"
                \/ Logout(b)
                \/ Tamper(b)]_vars
    /\ [](\A b \in Browsers : C10_Isolated(b))
    /\ []C10_OneSessionPerCode

\* Both browsers presented k1 to a single-use broker; b2 was answered with a
\* session while b1 is still blocked in its redeem call.
C10_Witness ==
    /\ singleUse
    /\ pc["b1"] = "redeeming"
    /\ req["b1"].arg = <<"k1">>
    /\ Done("b2", "callback")
    /\ req["b2"].arg = <<"k1">>
    /\ resp["b2"].setCookie.set
    /\ Redemption(<<"k1">>, "b2") \in redeemed

\* C11: no request calls the broker twice: a /saml-redirect request makes at
\* most one resolve call and no redeem call, a callback at most one redeem
\* call and no resolve call, and GET / and logout make no broker call; a
\* request whose call failed has ended, with that one call made.
C11_NoRetry ==
    \A b \in Browsers :
        /\ req[b].op = "saml-redirect" =>
               (req[b].resolveCalls <= 1 /\ req[b].redeemCalls = 0)
        /\ req[b].op = "callback" =>
               (req[b].redeemCalls <= 1 /\ req[b].resolveCalls = 0)
        /\ req[b].op \in {"index", "logout", "none"} =>
               (req[b].resolveCalls = 0 /\ req[b].redeemCalls = 0)
        /\ req[b].res.kind = "err" =>
               (pc[b] = "idle" /\ req[b].resolveCalls + req[b].redeemCalls = 1)

\* Both kinds of broker call have failed, each after a single call.
C11_Witness ==
    /\ Done("b1", "saml-redirect")
    /\ req["b1"].res.kind = "err"
    /\ req["b1"].resolveCalls = 1
    /\ Done("b2", "callback")
    /\ req["b2"].res.kind = "err"
    /\ req["b2"].redeemCalls = 1

\* C15: the organization passed to the broker is the text after the first
\* "@" of the `email` parameter ("a@b" gives "b", "a@b@c" gives "b@c"), and
\* is empty when the parameter is absent or holds no "@"; two requests with
\* the same parameter pass the same organization.
C15_OrganizationIsTextAfterFirstAt ==
    \A b \in Browsers :
        req[b].op = "saml-redirect" =>
            LET e == req[b].email
                v == e.value
            IN  /\ req[b].resolveCalls = 1
                /\ (~e.present \/ \A i \in 1..Len(v) : v[i] # "@") =>
                       req[b].arg = EmptyStr
                /\ (e.present /\ \E i \in 1..Len(v) : v[i] = "@") =>
                       \E n \in 1..Len(v) :
                           /\ v[n] = "@"
                           /\ \A i \in 1..(n - 1) : v[i] # "@"
                           /\ req[b].arg = SubSeq(v, n + 1, Len(v))
                /\ e = Str(<<"a", "@", "b">>) => req[b].arg = <<"b">>
                /\ e = Str(<<"a", "@", "b", "@", "c">>) =>
                       req[b].arg = <<"b", "@", "c">>
                /\ \A c \in Browsers :
                       (req[c].op = "saml-redirect" /\ req[c].email = e) =>
                           req[c].arg = req[b].arg

C15_Witness ==
    /\ Done("b1", "saml-redirect")
    /\ req["b1"].email = Str(<<"a", "@", "b", "@", "c">>)
    /\ req["b1"].arg = <<"b", "@", "c">>
    /\ Done("b2", "saml-redirect")
    /\ req["b2"].email = None
    /\ req["b2"].arg = EmptyStr

\* C12 (as claimed): whatever `email` cookie a GET / request carries, the
\* identity the page shows is the anonymous text or an identity the broker
\* returned from a redemption.  Every identity the broker returns is one of
\* Identities, so the claim implies this.
C12_RenderedIdentityWasRedeemed ==
    \A b \in Browsers :
        (Done(b, "index") /\ resp[b].kind = "page") =>
            \/ resp[b].greeting = <<"logged-out user">>
            \/ resp[b].greeting \in Identities

\* C16: a /saml-redirect request, in both of its steps and whatever the
\* broker answers, and a GET / request leave the browser's jar as it was and
\* set no cookie; and GET /, whenever its response can be written, answers
\* 200 with the page, with a session cookie and without one.
C16_IndexPage(b) ==
    /\ IndexResponse(cookie[b], TRUE).kind = "page"
    /\ IndexResponse(cookie[b], TRUE).status = StatusOK
    /\ ~cookie[b].present =>
           IndexResponse(cookie[b], TRUE).greeting = <<"logged-out user">>
    /\ Done(b, "index") =>
           \/ resp[b] = Aborted
           \/ resp[b].kind = "page" /\ resp[b].status = StatusOK

C16_SessionUntouched ==
    /\ [][\A b \in Browsers :
            \/ cookie'[b] = cookie[b] /\ ~resp'[b].setCookie.set
            \/ ~ \/ req'[b].op = "saml-redirect" /\ SamlRedirectCall(b)
                 \/ req'[b].op = "saml-redirect" /\ SamlRedirectReturn(b)
                 \/ req'[b].op = "index" /\ Index(b)]_vars
    /\ [](\A b \in Browsers : C16_IndexPage(b))

\* b1, with a session, got the page with its identity; b2, with a session,
\* was redirected to the identity provider and still has its session.
C16_Witness ==
    /\ Done("b1", "index")
    /\ resp["b1"].kind = "page"
    /\ resp["b1"].greeting = <<"j", "@", "b">>
    /\ SessionEmail(cookie["b1"]) = <<"j", "@", "b">>
    /\ Done("b2", "saml-redirect")
    /\ resp["b2"].kind = "redirect"
    /\ SessionEmail(cookie["b2"]) = <<"j", " ", "d">>

-----------------------------------------------------------------------------
\* C13, as stated: the order of the handoff is enforced.  A callback gives a
\* session only to a browser that was sent to the identity provider and has
\* since neither been given a session nor logged out; for a browser that is
\* anonymous or already authenticated it neither creates nor replaces one.
C13_HandoffOrderEnforced ==
    \A b \in Browsers : hist[b].on => ~hist[b].outOfOrder

\* C13, as the code has it: the server keeps nothing about the handoff and
\* enforces no order.  Every callback whose code the broker redeems gives the
\* browser the session of the returned identity, whether the browser was
\* awaiting it or not, replacing the session it had; and for a browser that
\* sends back only the cookies the server set, a session comes to be or
\* changes in no other way.
C13_SessionFromAnyRedeemedCallback ==
    [][\A b \in Browsers :
          /\ \/ cookie'[b] = cookie[b]
             \/ ~cookie'[b].present
             \/ /\ pc[b] = "redeeming"
                /\ req'[b].op = "callback"
                /\ req'[b].res.kind = "ok"
          /\ \/ pc[b] # "redeeming"
             \/ pc'[b] # "idle"
             \/ req'[b].res.kind # "ok"
             \/ /\ resp'[b].setCookie = SetCookie(req'[b].res.val, 0)
                /\ cookie'[b] = Str(sanitizeCookieValue(req'[b].res.val))
                /\ hist'[b].outOfOrder = ~hist[b].awaiting]_vars

\* One browser got its session from a callback it never asked for, the other
\* from a callback that followed its redirect to the identity provider.
C13_Witness ==
    /\ Done("b1", "callback")
    /\ req["b1"].res.kind = "ok"
    /\ cookie["b1"].present
    /\ hist["b1"].outOfOrder
    /\ Done("b2", "callback")
    /\ req["b2"].res.kind = "ok"
    /\ cookie["b2"].present
    /\ hist["b2"].on
    /\ ~hist["b2"].outOfOrder

-----------------------------------------------------------------------------
\* C14: for a browser that sends back only the cookies the server set, the
\* identity of its session, when it has one, is the identity the broker
\* returned in its most recent successful redemption since its last logout.
C14_SessionIsLastRedeemedIdentity ==
    \A b \in Browsers :
        hist[b].on =>
            \/ SessionEmail(cookie[b]) = EmptyStr
            \/ /\ hist[b].granted.present
               /\ SessionEmail(cookie[b]) = hist[b].granted.value

=============================================================================
